---- MODULE Spec2Model ----
(***************************************************************************)
(* Version resolution of cargo-edit (src/src/fetch.rs): fuzzy crate-name   *)
(* generation, the registry-index lookup loop, the two version selectors   *)
(* and the two public operations get_latest_dependency and                 *)
(* get_compatible_dependency.                                              *)
(*                                                                         *)
(* Strings are sequences of one-character strings (the code works on the   *)
(* bytes of the name).  Option<T> is a sequence of length 0 (None) or 1    *)
(* (Some).                                                                 *)
(***************************************************************************)
EXTENDS Integers, Sequences, FiniteSets, TLC

VARIABLES
    pc,             \* position of the call: idle, lookup, select, done
    crate_name,     \* the requested name (argument crate_name)
    args,           \* the other arguments of the call
    index,          \* the registry index behind the AnyIndexCache handle
    names_len,      \* length of the local `names` of fuzzy_query_registry_index, 0
                    \* before it is built; its elements are FuzzyNameAt(crate_name, _)
    pos,            \* position of the `for the_name in names` loop (1-based)
    lookups,        \* the names handed to index.krate so far, in order
    hit,            \* Option: the_name of the iteration that returned
    crate_versions, \* the parsed records (Vec<CrateVersion>)
    latest,         \* Option: position in crate_versions of the selected record
    result,         \* the CargoResult<Dependency> of the call
    warnings,       \* the lines written by eprintln!
    gen_result      \* the generator run alone: what gen_fuzzy_crate_names returned

vars == <<pc, crate_name, args, index, names_len, pos, lookups, hit,
          crate_versions, latest, result, warnings, gen_result>>

----------------------------------------------------------------------------
(* Bounds of the model *)

\* longest name handed to the generator alone
MaxNameLen == 4
\* most entries (packages or failing lookups) the registry index holds
MaxEntries == 2
\* longest record list handed to the selectors alone
MaxRecords == 2

----------------------------------------------------------------------------
(* Helpers on sequences and options *)

None == <<>>
Some(x) == <<x>>
IsSome(o) == Len(o) = 1
Unwrap(o) == o[1]

Range(s) == {s[i] : i \in 1..Len(s)}

Min(a, b) == IF a <= b THEN a ELSE b

\* all sequences over S of length at most n
RECURSIVE SeqsUpTo(_, _)
SeqsUpTo(S, n) ==
    IF n = 0 THEN {<<>>}
    ELSE LET shorter == SeqsUpTo(S, n - 1)
         IN  shorter \cup {Append(s, x) : s \in {t \in shorter : Len(t) = n - 1}, x \in S}

\* the increasing sequence of the elements of a finite set of integers
RECURSIVE SortedSeq(_)
SortedSeq(S) ==
    IF S = {} THEN <<>>
    ELSE LET m == CHOOSE x \in S : \A y \in S : x <= y
         IN  <<m>> \o SortedSeq(S \ {m})

----------------------------------------------------------------------------
(* gen_fuzzy_crate_names *)

\* const PATTERN: [u8; 2] = [b'-', b'_']
PATTERN == {"-", "_"}

\* .take(10)
WildcardCap == 10

\* every position of crate_name holding a PATTERN byte, in increasing order
PatternPositions(name) == SortedSeq({i \in 1..Len(name) : name[i] \in PATTERN})

\* wildcard_indexs: the first WildcardCap positions holding a PATTERN byte
WildcardIndexs(name) ==
    LET all == PatternPositions(name)
    IN  SubSeq(all, 1, Min(Len(all), WildcardCap))

\* mask_value = (mask >> mask_index) & 1 == 1   (mask_index is 0-based)
MaskValue(mask, mask_index) == (mask \div (2 ^ mask_index)) % 2 = 1

\* the inner loop: bytes after every wildcard position from the t-th on has
\* been overwritten for `mask`
RECURSIVE SetWildcards(_, _, _, _)
SetWildcards(bytes, wild, mask, t) ==
    IF t > Len(wild) THEN bytes
    ELSE SetWildcards(
            [bytes EXCEPT ![wild[t]] = IF MaskValue(mask, t - 1) THEN "-" ELSE "_"],
            wild, mask, t + 1)

\* mutant: the mask bit is read one position too high, so the first wildcard
\* never becomes a dash
GenFuzzyNameAtShiftedMask(name, m) ==
    LET wild == WildcardIndexs(name)
    IN  [j \in 1..Len(name) |->
            IF \E t \in 1..Len(wild) : wild[t] = j
            THEN LET t == CHOOSE t \in 1..Len(wild) : wild[t] = j
                 IN  IF MaskValue(m - 1, t) THEN "-" ELSE "_"
            ELSE name[j]]

\* result[m - 1]: the string pushed for mask m - 1.  The inner loop overwrites
\* every wildcard position, so the buffer carried from one mask to the next
\* contributes only the other bytes, which are those of crate_name; without
\* wildcards the one string returned is crate_name
GenFuzzyNameAt(name, m) == SetWildcards(name, WildcardIndexs(name), m - 1, 1)

\* result.len(): one string per mask in 0..2u128.pow(wildcard_indexs.len()),
\* and vec![crate_name] when there is no wildcard
NumFuzzyNames(name) == 2 ^ Len(WildcardIndexs(name))

\* gen_fuzzy_crate_names
GenFuzzyCrateNames(name) ==
    [m \in 1..NumFuzzyNames(name) |-> GenFuzzyNameAt(name, m)]

----------------------------------------------------------------------------
(* The semver crate as the code uses it: Version::from_str, Version's Ord    *)
(* and Display, VersionReq::from_str, VersionReq::matches.  Build metadata   *)
(* ('+') is outside the modelled inputs.  Numeric components of the          *)
(* modelled inputs are far below u64::MAX, where the parser reports          *)
(* overflow.                                                                 *)

Digits == <<"0", "1", "2", "3", "4", "5", "6", "7", "8", "9">>

\* the identifier characters in ASCII order: '-' < digits < upper < lower
AsciiOrder ==
    <<"-">> \o Digits \o
    <<"A", "B", "C", "D", "E", "F", "G", "H", "I", "J", "K", "L", "M",
      "N", "O", "P", "Q", "R", "S", "T", "U", "V", "W", "X", "Y", "Z">> \o
    <<"a", "b", "c", "d", "e", "f", "g", "h", "i", "j", "k", "l", "m",
      "n", "o", "p", "q", "r", "s", "t", "u", "v", "w", "x", "y", "z">>

IsDigit(c) == c \in Range(Digits)
IsIdentChar(c) == c \in Range(AsciiOrder)
CharCode(c) == CHOOSE i \in 1..Len(AsciiOrder) : AsciiOrder[i] = c
DigitValue(c) == (CHOOSE i \in 1..Len(Digits) : Digits[i] = c) - 1

AllDigits(s) == \A i \in 1..Len(s) : IsDigit(s[i])

\* position of the first occurrence of c in s, 0 when there is none
FirstIndexOf(s, c) ==
    IF \E i \in 1..Len(s) : s[i] = c
    THEN CHOOSE i \in 1..Len(s) : s[i] = c /\ \A j \in 1..(i - 1) : s[j] # c
    ELSE 0

\* s.split(sep)
RECURSIVE Split(_, _)
Split(s, sep) ==
    LET i == FirstIndexOf(s, sep)
    IN  IF i = 0 THEN <<s>>
        ELSE <<SubSeq(s, 1, i - 1)>> \o Split(SubSeq(s, i + 1, Len(s)), sep)

RECURSIVE TrimStart(_)
TrimStart(s) == IF s # <<>> /\ s[1] = " " THEN TrimStart(Tail(s)) ELSE s

RECURSIVE TrimEnd(_)
TrimEnd(s) ==
    IF s # <<>> /\ s[Len(s)] = " " THEN TrimEnd(SubSeq(s, 1, Len(s) - 1)) ELSE s

\* the value of a digit string
RECURSIVE DecimalValue(_)
DecimalValue(s) ==
    IF s = <<>> THEN 0
    ELSE 10 * DecimalValue(SubSeq(s, 1, Len(s) - 1)) + DigitValue(s[Len(s)])

\* the digit string of a number (u64's Display)
RECURSIVE DecimalString(_)
DecimalString(n) ==
    IF n < 10 THEN <<Digits[n + 1]>>
    ELSE DecimalString(n \div 10) \o <<Digits[(n % 10) + 1]>>

\* numeric_identifier: digits, no leading zero
IsNumericIdent(s) ==
    /\ s # <<>>
    /\ AllDigits(s)
    /\ (Len(s) > 1 => s[1] # "0")

\* one dot-separated prerelease identifier: [0-9A-Za-z-]+, and no leading zero
\* when it is all digits
IsPreIdent(s) ==
    /\ s # <<>>
    /\ \A i \in 1..Len(s) : IsIdentChar(s[i])
    /\ (AllDigits(s) /\ Len(s) > 1 => s[1] # "0")

\* the text after '-' : non-empty identifiers separated by '.'
IsPrereleaseText(s) == \A id \in Range(Split(s, ".")) : IsPreIdent(id)

ParseError == [ok |-> FALSE]

\* the end of Version::from_str: `nums` are the dot-separated parts before the
\* first '-', `pre` the text after it (`dashed`: there is one)
VersionOfParts(nums, dashed, pre) ==
    IF /\ Len(nums) = 3
       /\ \A i \in 1..3 : IsNumericIdent(nums[i])
       /\ (dashed => IsPrereleaseText(pre))
    THEN [ok |-> TRUE,
          val |-> [major |-> DecimalValue(nums[1]),
                   minor |-> DecimalValue(nums[2]),
                   patch |-> DecimalValue(nums[3]),
                   pre   |-> IF dashed THEN Split(pre, ".") ELSE <<>>]]
    ELSE ParseError

\* Version::from_str on a text whose first '-' is at `dash` (0: none)
VersionAtDash(text, dash) ==
    IF dash = 0 THEN VersionOfParts(Split(text, "."), FALSE, <<>>)
    ELSE VersionOfParts(Split(SubSeq(text, 1, dash - 1), "."), TRUE,
                        SubSeq(text, dash + 1, Len(text)))

\* semver::Version::from_str
ParseVersion(text) == VersionAtDash(text, FirstIndexOf(text, "-"))

\* s1.join(sep)
RECURSIVE Join(_, _)
Join(parts, sep) ==
    IF parts = <<>> THEN <<>>
    ELSE IF Len(parts) = 1 THEN parts[1]
    ELSE parts[1] \o <<sep>> \o Join(Tail(parts), sep)

\* Version's Display (latest.version.to_string())
VersionToString(v) ==
    DecimalString(v.major) \o <<".">> \o DecimalString(v.minor) \o <<".">> \o
    DecimalString(v.patch) \o
    (IF v.pre = <<>> THEN <<>> ELSE <<"-">> \o Join(v.pre, "."))

\* three-way comparison of two integers: -1, 0, 1 (Ordering)
CmpInt(a, b) == IF a < b THEN -1 ELSE IF a > b THEN 1 ELSE 0

\* byte-wise comparison of two identifiers (str's Ord)
RECURSIVE CmpStr(_, _)
CmpStr(a, b) ==
    IF a = <<>> /\ b = <<>> THEN 0
    ELSE IF a = <<>> THEN -1
    ELSE IF b = <<>> THEN 1
    ELSE IF a[1] # b[1] THEN CmpInt(CharCode(a[1]), CharCode(b[1]))
    ELSE CmpStr(Tail(a), Tail(b))

\* one prerelease identifier against another: numeric ones by value and
\* below every alphanumeric one, alphanumeric ones byte-wise
CmpPreIdent(a, b) ==
    IF AllDigits(a) /\ AllDigits(b) THEN CmpInt(DecimalValue(a), DecimalValue(b))
    ELSE IF AllDigits(a) THEN -1
    ELSE IF AllDigits(b) THEN 1
    ELSE CmpStr(a, b)

RECURSIVE CmpPreIdents(_, _)
CmpPreIdents(a, b) ==
    IF a = <<>> /\ b = <<>> THEN 0
    ELSE IF a = <<>> THEN -1
    ELSE IF b = <<>> THEN 1
    ELSE LET c == CmpPreIdent(a[1], b[1])
         IN  IF c # 0 THEN c ELSE CmpPreIdents(Tail(a), Tail(b))

\* Prerelease's Ord: the empty prerelease is above every other one
CmpPre(a, b) ==
    IF a = <<>> /\ b = <<>> THEN 0
    ELSE IF a = <<>> THEN 1
    ELSE IF b = <<>> THEN -1
    ELSE CmpPreIdents(a, b)

\* mutant: the prerelease is left out of the comparison
CmpVersionNoPre(a, b) ==
    IF a.major # b.major THEN CmpInt(a.major, b.major)
    ELSE IF a.minor # b.minor THEN CmpInt(a.minor, b.minor)
    ELSE CmpInt(a.patch, b.patch)

\* Version's Ord (derived: major, minor, patch, pre)
CmpVersion(a, b) ==
    IF a.major # b.major THEN CmpInt(a.major, b.major)
    ELSE IF a.minor # b.minor THEN CmpInt(a.minor, b.minor)
    ELSE IF a.patch # b.patch THEN CmpInt(a.patch, b.patch)
    ELSE CmpPre(a.pre, b.pre)

\* Version::is_prerelease (VersionExt)
IsPrerelease(v) == v.pre # <<>>

----------------------------------------------------------------------------
(* semver::VersionReq::from_str and RustVersion::from_str *)

Wildcards == {"*", "x", "X"}

\* op(input): the operator a comparator starts with and the text after it
OpOf(text) ==
    IF Len(text) >= 2 /\ SubSeq(text, 1, 2) = <<">", "=">>
        THEN [op |-> "GreaterEq", rest |-> SubSeq(text, 3, Len(text)), default |-> FALSE]
    ELSE IF Len(text) >= 2 /\ SubSeq(text, 1, 2) = <<"<", "=">>
        THEN [op |-> "LessEq", rest |-> SubSeq(text, 3, Len(text)), default |-> FALSE]
    ELSE IF text # <<>> /\ text[1] = "="
        THEN [op |-> "Exact", rest |-> Tail(text), default |-> FALSE]
    ELSE IF text # <<>> /\ text[1] = ">"
        THEN [op |-> "Greater", rest |-> Tail(text), default |-> FALSE]
    ELSE IF text # <<>> /\ text[1] = "<"
        THEN [op |-> "Less", rest |-> Tail(text), default |-> FALSE]
    ELSE IF text # <<>> /\ text[1] = "~"
        THEN [op |-> "Tilde", rest |-> Tail(text), default |-> FALSE]
    ELSE IF text # <<>> /\ text[1] = "^"
        THEN [op |-> "Caret", rest |-> Tail(text), default |-> FALSE]
    ELSE [op |-> "Caret", rest |-> text, default |-> TRUE]

IsWildcard(part) == Len(part) = 1 /\ part[1] \in Wildcards

\* the end of comparator(): `parts` are the dot-separated parts after the
\* operator and before the first '-', `pre` the text after it
ComparatorOfParts(op, default, parts, dashed, pre) ==
    IF /\ Len(parts) \in 1..3
       /\ IsNumericIdent(parts[1])
       /\ (Len(parts) >= 2 => IsWildcard(parts[2]) \/ IsNumericIdent(parts[2]))
       /\ (Len(parts) >= 3 =>
             \/ IsWildcard(parts[3])
             \/ (~IsWildcard(parts[2]) /\ IsNumericIdent(parts[3])))
       /\ (dashed => Len(parts) = 3 /\ ~IsWildcard(parts[3]) /\ IsPrereleaseText(pre))
    THEN [ok |-> TRUE,
          val |-> [op    |-> IF /\ default
                                /\ \E i \in 2..Len(parts) : IsWildcard(parts[i])
                             THEN "Wildcard" ELSE op,
                   major |-> DecimalValue(parts[1]),
                   minor |-> IF Len(parts) >= 2 /\ ~IsWildcard(parts[2])
                             THEN Some(DecimalValue(parts[2])) ELSE None,
                   patch |-> IF Len(parts) >= 3 /\ ~IsWildcard(parts[3])
                             THEN Some(DecimalValue(parts[3])) ELSE None,
                   pre   |-> IF dashed THEN Split(pre, ".") ELSE <<>>]]
    ELSE ParseError

\* comparator() on the text after the operator, its first '-' at `dash`
ComparatorAtDash(op, default, text, dash) ==
    IF dash = 0 THEN ComparatorOfParts(op, default, Split(text, "."), FALSE, <<>>)
    ELSE ComparatorOfParts(op, default, Split(SubSeq(text, 1, dash - 1), "."), TRUE,
                           SubSeq(text, dash + 1, Len(text)))

ComparatorAfterOp(op, default, text) ==
    ComparatorAtDash(op, default, text, FirstIndexOf(text, "-"))

ComparatorOfOp(o) == ComparatorAfterOp(o.op, o.default, TrimEnd(TrimStart(o.rest)))

\* comparator(input): operator, major, optional minor and patch (either may be
\* a wildcard), and a prerelease only after a patch
ParseComparator(input) == ComparatorOfOp(OpOf(input))

\* Result<Vec<Comparator>>: the comparators, or the error of one of them
CollectComparators(comps) ==
    IF \A i \in 1..Len(comps) : comps[i].ok
    THEN [ok |-> TRUE, val |-> [i \in 1..Len(comps) |-> comps[i].val]]
    ELSE ParseError

ComparatorsOfParts(parts) ==
    CollectComparators([i \in 1..Len(parts) |-> ParseComparator(TrimStart(parts[i]))])

VersionReqOfTrimmed(t) ==
    IF IsWildcard(t) THEN [ok |-> TRUE, val |-> <<>>]
    ELSE ComparatorsOfParts(Split(t, ","))

\* VersionReq::from_str: a lone wildcard is the requirement without
\* comparators, otherwise comparators separated by ','
ParseVersionReq(text) == VersionReqOfTrimmed(TrimEnd(TrimStart(text)))

\* Option::unwrap_or(0)
UnwrapOr0(o) == IF IsSome(o) THEN Unwrap(o) ELSE 0

\* RustVersion::from_str after text.parse::<semver::VersionReq>(): the `?`
\* and the three ensure!s
RustVersionOfReq(req) ==
    IF ~req.ok THEN [ok |-> FALSE, err |-> "InvalidVersionReq"]
    ELSE IF Len(req.val) # 1 THEN [ok |-> FALSE, err |-> "InvalidRustVersion"]
    ELSE IF req.val[1].op # "Caret" THEN [ok |-> FALSE, err |-> "InvalidRustVersion"]
    ELSE IF req.val[1].pre # <<>> THEN [ok |-> FALSE, err |-> "InvalidRustVersion"]
    ELSE [ok |-> TRUE,
          val |-> [major |-> req.val[1].major,
                   minor |-> UnwrapOr0(req.val[1].minor),
                   patch |-> UnwrapOr0(req.val[1].patch)]]

\* impl FromStr for RustVersion
RustVersionFromStr(text) == RustVersionOfReq(ParseVersionReq(text))

\* RustVersion's derived Ord: major, then minor, then patch
RustVersionLe(a, b) ==
    IF a.major # b.major THEN a.major < b.major
    ELSE IF a.minor # b.minor THEN a.minor < b.minor
    ELSE a.patch <= b.patch

----------------------------------------------------------------------------
(* semver::VersionReq::matches *)

MatchesExact(cmp, ver) ==
    IF ver.major # cmp.major THEN FALSE
    ELSE IF ~IsSome(cmp.minor) THEN TRUE
    ELSE IF ver.minor # Unwrap(cmp.minor) THEN FALSE
    ELSE IF ~IsSome(cmp.patch) THEN TRUE
    ELSE IF ver.patch # Unwrap(cmp.patch) THEN FALSE
    ELSE ver.pre = cmp.pre

MatchesGreater(cmp, ver) ==
    IF ver.major # cmp.major THEN ver.major > cmp.major
    ELSE IF ~IsSome(cmp.minor) THEN FALSE
    ELSE IF ver.minor # Unwrap(cmp.minor) THEN ver.minor > Unwrap(cmp.minor)
    ELSE IF ~IsSome(cmp.patch) THEN FALSE
    ELSE IF ver.patch # Unwrap(cmp.patch) THEN ver.patch > Unwrap(cmp.patch)
    ELSE CmpPre(ver.pre, cmp.pre) > 0

MatchesLess(cmp, ver) ==
    IF ver.major # cmp.major THEN ver.major < cmp.major
    ELSE IF ~IsSome(cmp.minor) THEN FALSE
    ELSE IF ver.minor # Unwrap(cmp.minor) THEN ver.minor < Unwrap(cmp.minor)
    ELSE IF ~IsSome(cmp.patch) THEN FALSE
    ELSE IF ver.patch # Unwrap(cmp.patch) THEN ver.patch < Unwrap(cmp.patch)
    ELSE CmpPre(ver.pre, cmp.pre) < 0

MatchesTilde(cmp, ver) ==
    IF ver.major # cmp.major THEN FALSE
    ELSE IF IsSome(cmp.minor) /\ ver.minor # Unwrap(cmp.minor) THEN FALSE
    ELSE IF IsSome(cmp.patch) /\ ver.patch # Unwrap(cmp.patch)
        THEN ver.patch > Unwrap(cmp.patch)
    ELSE CmpPre(ver.pre, cmp.pre) >= 0

MatchesCaret(cmp, ver) ==
    IF ver.major # cmp.major THEN FALSE
    ELSE IF ~IsSome(cmp.minor) THEN TRUE
    ELSE IF ~IsSome(cmp.patch)
        THEN IF cmp.major > 0 THEN ver.minor >= Unwrap(cmp.minor)
             ELSE ver.minor = Unwrap(cmp.minor)
    ELSE LET minor == Unwrap(cmp.minor)
             patch == Unwrap(cmp.patch)
         IN  IF cmp.major > 0 /\ ver.minor # minor THEN ver.minor > minor
             ELSE IF cmp.major > 0 /\ ver.patch # patch THEN ver.patch > patch
             ELSE IF cmp.major = 0 /\ minor > 0 /\ ver.minor # minor THEN FALSE
             ELSE IF cmp.major = 0 /\ minor > 0 /\ ver.patch # patch THEN ver.patch > patch
             ELSE IF cmp.major = 0 /\ minor = 0
                     /\ (ver.minor # minor \/ ver.patch # patch) THEN FALSE
             ELSE CmpPre(ver.pre, cmp.pre) >= 0

MatchesImpl(cmp, ver) ==
    CASE cmp.op \in {"Exact", "Wildcard"} -> MatchesExact(cmp, ver)
      [] cmp.op = "Greater"   -> MatchesGreater(cmp, ver)
      [] cmp.op = "GreaterEq" -> MatchesExact(cmp, ver) \/ MatchesGreater(cmp, ver)
      [] cmp.op = "Less"      -> MatchesLess(cmp, ver)
      [] cmp.op = "LessEq"    -> MatchesExact(cmp, ver) \/ MatchesLess(cmp, ver)
      [] cmp.op = "Tilde"     -> MatchesTilde(cmp, ver)
      [] cmp.op = "Caret"     -> MatchesCaret(cmp, ver)

\* a prerelease version matches only when some comparator names a prerelease
\* of the same major.minor.patch
PreIsCompatible(cmp, ver) ==
    /\ cmp.major = ver.major
    /\ cmp.minor = Some(ver.minor)
    /\ cmp.patch = Some(ver.patch)
    /\ cmp.pre # <<>>

\* version_req.matches(&v.version)
Matches(req, ver) ==
    /\ \A i \in 1..Len(req) : MatchesImpl(req[i], ver)
    /\ (ver.pre # <<>> => \E i \in 1..Len(req) : PreIsCompatible(req[i], ver))

----------------------------------------------------------------------------
(* read_latest_version and read_compatible_version *)

\* version_is_stable
VersionIsStable(v) == ~IsPrerelease(v.version)

\* .filter(|&v| flag_allow_prerelease || version_is_stable(v))
LatestFilter(v, flag_allow_prerelease) ==
    flag_allow_prerelease \/ VersionIsStable(v)

\* .filter(|&v| version_req.matches(&v.version))
CompatibleFilter(v, version_req) == Matches(version_req, v.version)

\* mutant: yanked records are kept
YankedFilterKeepingAll(v) == TRUE

\* .filter(|&v| !v.yanked)
YankedFilter(v) == ~v.yanked

\* mutant: a record that declares no rust-version is dropped when a ceiling is
\* given
RustVersionFilterStrict(v, rust_version) ==
    IF IsSome(rust_version)
    THEN IsSome(v.rust_version) /\ RustVersionLe(Unwrap(v.rust_version), Unwrap(rust_version))
    ELSE TRUE

\* rust_version.and_then(|rust_version| v.rust_version.map(|v_rust_version|
\*     v_rust_version <= rust_version)).unwrap_or(true)
RustVersionFilter(v, rust_version) ==
    IF IsSome(rust_version) /\ IsSome(v.rust_version)
    THEN RustVersionLe(Unwrap(v.rust_version), Unwrap(rust_version))
    ELSE TRUE

\* Iterator::max_by_key over the positions in `kept`: the last of the greatest
MaxByKey(versions, kept) ==
    IF kept = {} THEN None
    ELSE Some(CHOOSE i \in kept :
            \A j \in kept :
                LET c == CmpVersion(versions[j].version, versions[i].version)
                IN  c < 0 \/ (c = 0 /\ j <= i))

\* Dependency::new(name).set_source(RegistrySource::new(version))
DependencyOf(v) == [name |-> v.name, version |-> VersionToString(v.version)]

\* read_latest_version: the position of `latest`, None for the error
ReadLatestVersion(versions, flag_allow_prerelease, rust_version) ==
    MaxByKey(versions,
        {i \in 1..Len(versions) :
            /\ LatestFilter(versions[i], flag_allow_prerelease)
            /\ YankedFilter(versions[i])
            /\ RustVersionFilter(versions[i], rust_version)})

\* read_compatible_version: the position of `latest`, None for the error
ReadCompatibleVersion(versions, version_req, rust_version) ==
    MaxByKey(versions,
        {i \in 1..Len(versions) :
            /\ CompatibleFilter(versions[i], version_req)
            /\ YankedFilter(versions[i])
            /\ RustVersionFilter(versions[i], rust_version)})

----------------------------------------------------------------------------
(* fuzzy_query_registry_index *)

NoResult == [kind |-> "None", err |-> "", name |-> <<>>, version |-> <<>>]
OkResult(dep) == [kind |-> "Ok", err |-> "", name |-> dep.name, version |-> dep.version]
ErrResult(e, n) == [kind |-> "Err", err |-> e, name |-> n, version |-> <<>>]

\* index.krate(&the_name): Err(_), Ok(None) or Ok(Some(krate)); a name the
\* index holds nothing for is Ok(None)
Krate(idx, the_name) ==
    IF the_name \in DOMAIN idx THEN idx[the_name]
    ELSE [kind |-> "None", versions |-> <<>>]

\* mutant: only Ok(None) continues the loop, a failed lookup ends it
IsOkSomeOrErr(krate) == krate.kind # "None"

\* the match on the lookup: Ok(Some(krate)) => krate, _ => continue
IsOkSome(krate) == krate.kind = "Some"

\* names.iter().position(|x| *x == crate_name): the first position holding
\* the requested name (1-based), 0 for None
PositionOf(name) ==
    IF \E i \in 1..NumFuzzyNames(name) : GenFuzzyNameAt(name, i) = name
    THEN CHOOSE i \in 1..NumFuzzyNames(name) :
            /\ GenFuzzyNameAt(name, i) = name
            /\ \A j \in 1..(i - 1) : GenFuzzyNameAt(name, j) # name
    ELSE 0

\* mutant: the requested name is not moved to the front
FuzzyNameAtUnswapped(name, p) == GenFuzzyNameAt(name, p)

\* names[p] as the loop walks it (p is 1-based): the generated names after
\* names.swap(index, 0) has exchanged the requested name and the first one
FuzzyNameAt(name, p) ==
    LET at == PositionOf(name)
    IN  IF at = 0 THEN GenFuzzyNameAt(name, p)
        ELSE IF p = 1 THEN GenFuzzyNameAt(name, at)
        ELSE IF p = at THEN GenFuzzyNameAt(name, 1)
        ELSE GenFuzzyNameAt(name, p)

\* the CrateVersion built from a raw record, or the first error: the version
\* is parsed before the rust-version
CrateVersionOf(v, version, rust) ==
    IF ~version.ok THEN [ok |-> FALSE, err |-> "InvalidVersion"]
    ELSE IF ~rust.ok THEN [ok |-> FALSE, err |-> rust.err]
    ELSE [ok |-> TRUE,
          val |-> [name |-> v.name,
                   version |-> version.val,
                   rust_version |-> rust.val,
                   yanked |-> v.yanked]]

\* Result<RustVersion> to Result<Option<RustVersion>>
RustVersionOptionOf(r) ==
    IF r.ok THEN [ok |-> TRUE, val |-> Some(r.val)] ELSE [ok |-> FALSE, err |-> r.err]

\* v.rust_version.as_ref().map(|r| r.parse()).transpose()
ParseRustVersionOption(o) ==
    IF IsSome(o) THEN RustVersionOptionOf(RustVersionFromStr(Unwrap(o)))
    ELSE [ok |-> TRUE, val |-> None]

\* the closure of the map: one raw record to a CrateVersion
ParseRecord(v) ==
    CrateVersionOf(v, ParseVersion(v.version), ParseRustVersionOption(v.rust_version))

\* collect::<CargoResult<Vec<_>>>(): the records, or the first error in order
CollectParsed(parsed) ==
    IF \E i \in 1..Len(parsed) : ~parsed[i].ok
    THEN [ok |-> FALSE, val |-> <<>>,
          err |-> parsed[CHOOSE i \in 1..Len(parsed) :
                            ~parsed[i].ok /\ \A j \in 1..(i - 1) : parsed[j].ok].err]
    ELSE [ok |-> TRUE, val |-> [i \in 1..Len(parsed) |-> parsed[i].val], err |-> ""]

\* the records of `raw` at the positions `keep`
Pick(raw, keep) == [i \in 1..Len(keep) |-> raw[keep[i]]]

\* mutant: yanked records are dropped before they are parsed
CollectVersionsSkippingYanked(raw) ==
    CollectParsed([i \in 1..Cardinality({j \in 1..Len(raw) : ~raw[j].yanked}) |->
        ParseRecord(Pick(raw, SortedSeq({j \in 1..Len(raw) : ~raw[j].yanked}))[i])])

\* krate.versions.iter().map(..).collect(): every record parsed in order
CollectVersions(raw) == CollectParsed([i \in 1..Len(raw) |-> ParseRecord(raw[i])])

\* the name with every varied separator written as '_' (the crates.io
\* canonical form, and the first generated name)
Underscored(name) == SetWildcards(name, WildcardIndexs(name), 0, 1)

\* Err(no_crate_err(crate_name))
NoCrateErr(name) == ErrResult("CrateNotFound", name)

\* mutant: the loop skips every other name
NextPosSkipping(p) == p + 2

\* the for loop's advance to the next name
NextPos(p) == p + 1

\* mutant: names that differ in their separators only count as the same
ShouldWarnUpToSeparators(dep_name, requested) ==
    Underscored(dep_name) # Underscored(requested)

\* if dep.name != crate_name
ShouldWarn(dep_name, requested) == dep_name # requested

\* mutant: the empty name is let through
IsEmptyNever(name) == FALSE

\* crate_name.is_empty()
IsEmpty(name) == name = <<>>

----------------------------------------------------------------------------
(* The inputs *)

\* a name with one separator more than gen_fuzzy_crate_names varies
LongName == [i \in 1..(WildcardCap + 1) |-> IF i \in {1, WildcardCap + 1} THEN "-" ELSE "_"]

\* the names requested from the public operations
CallNames ==
    { <<>>,
      <<"a">>,
      <<"a", "-", "b">>,
      <<"a", "_", "b">>,
      <<"a", "_", "b", "-", "c">>,
      LongName }

\* the names handed to the generator alone
GenNames ==
    SeqsUpTo({"a", "-", "_"}, MaxNameLen)
        \cup {LongName, LongName \o <<"a", "-">>}

Upper(c) == IF c = "a" THEN "A" ELSE IF c = "b" THEN "B" ELSE IF c = "c" THEN "C" ELSE c

RawRecord(n, v, r, y) == [name |-> n, version |-> v, rust_version |-> r, yanked |-> y]

\* what a lookup of `key` can find: a failing lookup, or one of the packages
\* a registry may hold under that key
Outcomes(key) ==
    LET pkg(versions) == [kind |-> "Some", versions |-> versions]
        cased == [i \in 1..Len(key) |-> Upper(key[i])]
    IN  { [kind |-> "Err", versions |-> <<>>],
          \* a stable and a later prerelease version
          pkg(<<RawRecord(key, <<"0", ".", "5", ".", "0">>, None, FALSE),
                RawRecord(key, <<"0", ".", "6", ".", "0", "-", "r", "c">>,
                          Some(<<"1", ".", "5", "6">>), FALSE)>>),
          \* every version yanked
          pkg(<<RawRecord(key, <<"0", ".", "3", ".", "1">>, None, TRUE),
                RawRecord(key, <<"0", ".", "3", ".", "0">>, None, TRUE)>>),
          \* a yanked record whose version is no semantic version
          pkg(<<RawRecord(key, <<"0", ".", "5", ".", "0">>, None, FALSE),
                RawRecord(key, <<"0", ".", "5">>, None, TRUE)>>),
          \* a prerelease record whose rust-version is no caret comparator
          pkg(<<RawRecord(key, <<"0", ".", "5", ".", "0">>, None, FALSE),
                RawRecord(key, <<"0", ".", "6", ".", "0", "-", "r", "c">>,
                          Some(<<">", "=", "1", ".", "5", "6">>), FALSE)>>),
          \* published under another capitalisation than the key
          pkg(<<RawRecord(cased, <<"1", ".", "0", ".", "0">>,
                          Some(<<"1", ".", "7", "0", ".", "1">>), FALSE),
                RawRecord(cased, <<"0", ".", "9", ".", "0">>,
                          Some(<<"^", "1", ".", "5", "6", ".", "*">>), FALSE)>>) }

\* the names of the registry that a request for `name` can reach in the
\* modelled registries: those that differ from it in its first two
\* separators at most
Candidates(name) ==
    LET wild == WildcardIndexs(name)
        vary == SubSeq(wild, 1, Min(Len(wild), 2))
    IN  {SetWildcards(name, vary, mask, 1) : mask \in 0..(2 ^ Len(vary) - 1)}

\* the registries: at most MaxEntries names with a package or a failing lookup
Indexes(name) ==
    UNION { {idx \in [keys -> UNION {Outcomes(k) : k \in keys}] :
                \A k \in keys : idx[k] \in Outcomes(k)} :
            keys \in {ks \in SUBSET Candidates(name) : Cardinality(ks) <= MaxEntries} }

Version(major, minor, patch, pre) ==
    [major |-> major, minor |-> minor, patch |-> patch, pre |-> pre]

Comparator(op, major, minor, patch, pre) ==
    [op |-> op, major |-> major, minor |-> minor, patch |-> patch, pre |-> pre]

\* Option<RustVersion> arguments: no ceiling, or 1.70.0
RustVersionArgs == {None, Some([major |-> 1, minor |-> 70, patch |-> 0])}

\* &semver::VersionReq arguments: ^0.9, >=0.10.0-alpha, <0.10.0 and *
VersionReqArgs ==
    { <<Comparator("Caret", 0, Some(9), None, <<>>)>>,
      <<Comparator("GreaterEq", 0, Some(10), Some(0), <<<<"a", "l", "p", "h", "a">>>>)>>,
      <<Comparator("Less", 0, Some(10), Some(0), <<>>)>>,
      <<>> }

LatestArgs(flag_allow_prerelease, rust_version) ==
    [flag_allow_prerelease |-> flag_allow_prerelease, mode |-> "latest",
     rust_version |-> rust_version, version_req |-> <<>>]

CompatibleArgs(version_req, rust_version) ==
    [flag_allow_prerelease |-> FALSE, mode |-> "compatible",
     rust_version |-> rust_version, version_req |-> version_req]

NoArgs == [flag_allow_prerelease |-> FALSE, mode |-> "none",
           rust_version |-> None, version_req |-> <<>>]

\* the argument lists of the calls of get_latest_dependency
LatestCalls == {LatestArgs(f, r) : f \in BOOLEAN, r \in RustVersionArgs}

\* the argument lists of the calls of get_compatible_dependency
CompatibleCalls == {CompatibleArgs(q, r) : q \in VersionReqArgs, r \in RustVersionArgs}

\* the records handed to the selectors alone
SelName == <<"f", "o", "o">>

SelVersions ==
    { Version(0, 9, 0, <<>>),
      Version(0, 10, 0, <<<<"a", "l", "p", "h", "a">>>>),
      Version(0, 10, 0, <<<<"a", "l", "p", "h", "a">>, <<"1">>>>),
      Version(0, 10, 0, <<>>) }

SelRustVersions ==
    { None,
      Some([major |-> 1, minor |-> 56, patch |-> 2]),
      Some([major |-> 1, minor |-> 70, patch |-> 1]) }

SelRecords ==
    { [name |-> SelName, version |-> v, rust_version |-> r, yanked |-> y] :
        v \in SelVersions, r \in SelRustVersions, y \in BOOLEAN }

SelArgs == LatestCalls \cup CompatibleCalls

----------------------------------------------------------------------------
(* The public operations, in the steps between their calls of the index *)

\* a call is about to be made on a registry.  For the long name the registry
\* holds a package under one of the candidates: the loop that runs out of
\* names is covered by the shorter names.
Init ==
    /\ pc = "idle"
    /\ crate_name \in CallNames
    /\ index \in Indexes(crate_name)
    /\ (crate_name = LongName => \E k \in DOMAIN index : index[k].kind = "Some")
    /\ args = NoArgs
    /\ names_len = 0
    /\ pos = 0
    /\ lookups = <<>>
    /\ hit = None
    /\ crate_versions = <<>>
    /\ latest = None
    /\ result = NoResult
    /\ warnings = <<>>
    /\ gen_result = <<>>

\* the entry of either operation: the empty name is refused, otherwise
\* fuzzy_query_registry_index builds `names` and enters its loop
Enter(a) ==
    /\ pc = "idle"
    /\ args' = a
    /\ IF IsEmpty(crate_name)
       THEN /\ result' = ErrResult("EmptyCrateName", <<>>)
            /\ pc' = "done"
            /\ UNCHANGED <<names_len, pos>>
       ELSE /\ names_len' = NumFuzzyNames(crate_name)
            /\ pos' = 1
            /\ pc' = "lookup"
            /\ UNCHANGED result
    /\ UNCHANGED <<crate_name, index, lookups, hit, crate_versions, latest, warnings,
                   gen_result>>

\* get_latest_dependency is called
GetLatestDependency ==
    \E a \in LatestCalls : Enter(a)

\* get_compatible_dependency is called
GetCompatibleDependency ==
    \E a \in CompatibleCalls : Enter(a)

\* one iteration whose lookup is Err(_) or Ok(None): continue
LookupMiss ==
    /\ pc = "lookup"
    /\ pos <= names_len
    /\ ~IsOkSome(Krate(index, FuzzyNameAt(crate_name, pos)))
    /\ lookups' = Append(lookups, FuzzyNameAt(crate_name, pos))
    /\ pos' = NextPos(pos)
    /\ UNCHANGED <<pc, crate_name, args, index, names_len, hit, crate_versions,
                   latest, result, warnings, gen_result>>

\* the return of fuzzy_query_registry_index with what collect() gave: the
\* records, which the caller goes on with, or the error, which ends the call
Return(collected) ==
    IF collected.ok
    THEN /\ crate_versions' = collected.val
         /\ pc' = "select"
         /\ UNCHANGED result
    ELSE /\ result' = ErrResult(collected.err, <<>>)
         /\ pc' = "done"
         /\ UNCHANGED crate_versions

\* the iteration whose lookup is Ok(Some(krate)): its records are parsed and
\* the function returns them, or the first parse error
LookupHit ==
    /\ pc = "lookup"
    /\ pos <= names_len
    /\ IsOkSome(Krate(index, FuzzyNameAt(crate_name, pos)))
    /\ lookups' = Append(lookups, FuzzyNameAt(crate_name, pos))
    /\ hit' = Some(FuzzyNameAt(crate_name, pos))
    /\ Return(CollectVersions(Krate(index, FuzzyNameAt(crate_name, pos)).versions))
    /\ UNCHANGED <<crate_name, args, index, names_len, pos, latest, warnings, gen_result>>

\* the loop ran out of names
LookupExhausted ==
    /\ pc = "lookup"
    /\ pos > names_len
    /\ result' = NoCrateErr(crate_name)
    /\ pc' = "done"
    /\ UNCHANGED <<crate_name, args, index, names_len, pos, lookups, hit,
                   crate_versions, latest, warnings, gen_result>>

\* the rest of either operation once `selected` came back from the selector:
\* the error, or the warning and the dependency
Finish(selected) ==
    /\ latest' = selected
    /\ IF IsSome(selected)
       THEN LET dep == DependencyOf(crate_versions[Unwrap(selected)])
            IN  /\ result' = OkResult(dep)
                /\ warnings' =
                     IF ShouldWarn(dep.name, crate_name)
                     THEN Append(warnings, [added |-> dep.name, instead |-> crate_name])
                     ELSE warnings
       ELSE /\ result' = ErrResult("NoAvailableVersion", <<>>)
            /\ UNCHANGED warnings
    /\ pc' = "done"
    /\ UNCHANGED <<crate_name, args, index, names_len, pos, lookups, hit, crate_versions,
                   gen_result>>

\* get_latest_dependency after the query: read_latest_version
SelectLatest ==
    /\ pc = "select"
    /\ args.mode = "latest"
    /\ Finish(ReadLatestVersion(crate_versions, args.flag_allow_prerelease,
                                args.rust_version))

\* get_compatible_dependency after the query: read_compatible_version
SelectCompatible ==
    /\ pc = "select"
    /\ args.mode = "compatible"
    /\ Finish(ReadCompatibleVersion(crate_versions, args.version_req,
                                    args.rust_version))

Next ==
    \/ GetLatestDependency
    \/ GetCompatibleDependency
    \/ LookupMiss
    \/ LookupHit
    \/ LookupExhausted
    \/ SelectLatest
    \/ SelectCompatible

Spec == Init /\ [][Next]_vars

----------------------------------------------------------------------------
(* The selectors alone, on every record list *)

InitSel ==
    /\ pc = "select"
    /\ crate_name = SelName
    /\ index = <<>>
    /\ args \in SelArgs
    /\ names_len = 0
    /\ pos = 0
    /\ lookups = <<>>
    /\ hit = None
    /\ crate_versions \in SeqsUpTo(SelRecords, MaxRecords)
    /\ latest = None
    /\ result = NoResult
    /\ warnings = <<>>
    /\ gen_result = <<>>

NextSel == SelectLatest \/ SelectCompatible

SpecSel == InitSel /\ [][NextSel]_vars

----------------------------------------------------------------------------
(* The generator alone, on every name *)

InitGen ==
    /\ pc = "gen"
    /\ crate_name \in GenNames
    /\ index = <<>>
    /\ args = NoArgs
    /\ names_len = 0
    /\ pos = 0
    /\ lookups = <<>>
    /\ hit = None
    /\ crate_versions = <<>>
    /\ latest = None
    /\ result = NoResult
    /\ warnings = <<>>
    /\ gen_result = <<>>

\* names = gen_fuzzy_crate_names(crate_name)
Generate ==
    /\ pc = "gen"
    /\ gen_result' = GenFuzzyCrateNames(crate_name)
    /\ pc' = "generated"
    /\ UNCHANGED <<crate_name, args, index, names_len, pos, lookups, hit,
                   crate_versions, latest, result, warnings>>

NextGen == Generate

SpecGen == InitGen /\ [][NextGen]_vars

----------------------------------------------------------------------------
(* Properties of gen_fuzzy_crate_names *)

\* the positions of crate_name holding a dash or an underscore
SeparatorPositions == {i \in 1..Len(crate_name) : crate_name[i] \in {"-", "_"}}

\* the first min(k, 10) of them
VariedPositions ==
    {i \in SeparatorPositions :
        Cardinality({j \in SeparatorPositions : j < i}) < WildcardCap}

\* crate_name with the positions in `varied` written as `choice` says
Combination(varied, choice) ==
    [j \in 1..Len(crate_name) |-> IF j \in varied THEN choice[j] ELSE crate_name[j]]

\* how often `name` occurs in the sequence `list`
Occurrences(list, name) == Cardinality({i \in 1..Len(list) : list[i] = name})

\* C3: for a name with k separators gen_fuzzy_crate_names returns exactly
\* 2^min(k,10) pairwise distinct strings of the length of the input, each
\* equal to the input outside the first min(k,10) separator positions, every
\* combination of '-' and '_' at those positions exactly once; separators
\* after the tenth stay as given, and for k = 0 the result is the input alone.
GenFuzzyAllCombinationsOnce ==
    pc = "generated" =>
        LET varied == VariedPositions
            fixed  == (1..Len(crate_name)) \ varied
        IN  /\ Len(gen_result) = 2 ^ Min(Cardinality(SeparatorPositions), WildcardCap)
            /\ \A i \in 1..Len(gen_result) :
                 /\ Len(gen_result[i]) = Len(crate_name)
                 /\ \A j \in varied : gen_result[i][j] \in {"-", "_"}
                 /\ \A j \in fixed : gen_result[i][j] = crate_name[j]
            /\ Cardinality(Range(gen_result)) = Len(gen_result)
            /\ \A choice \in [varied -> {"-", "_"}] :
                 LET combination == Combination(varied, choice)
                 IN  Occurrences(gen_result, combination) = 1
            /\ (SeparatorPositions = {} => gen_result = <<crate_name>>)

\* C3 witness: a name with more than ten separators has been expanded
GenFuzzyCappedName ==
    /\ pc = "generated"
    /\ Cardinality(SeparatorPositions) > WildcardCap
    /\ Len(gen_result) = 2 ^ WildcardCap

----------------------------------------------------------------------------
(* Properties of the lookup loop *)

\* the lookup of `name` returns a present package
Present(name) == Krate(index, name).kind = "Some"

\* the variants of the requested name that the index holds a package for
PresentVariants ==
    {k \in DOMAIN index :
        /\ index[k].kind = "Some"
        /\ \E m \in 1..NumFuzzyNames(crate_name) : GenFuzzyNameAt(crate_name, m) = k}

\* C1: the variants are looked up one at a time in the order of the variant
\* list; the records used are those of the first variant whose lookup returns
\* a present package, and after that hit no further variant is looked up,
\* whichever other variants the index holds too.
FirstPresentVariantWins ==
    /\ \A i \in 1..Len(lookups) : lookups[i] = FuzzyNameAt(crate_name, i)
    /\ IsSome(hit) =>
         LET n == Len(lookups)
         IN  /\ n >= 1
             /\ Unwrap(hit) = lookups[n]
             /\ Present(lookups[n])
             /\ \A i \in 1..(n - 1) : ~Present(lookups[i])
             /\ pc \in {"select", "done"}
             /\ (pc = "select" \/ result.kind = "Ok" \/ result.err = "NoAvailableVersion")
                  => crate_versions = CollectVersions(Krate(index, lookups[n]).versions).val
    /\ (~IsSome(hit) /\ pc \in {"lookup", "done"}) =>
         \A i \in 1..Len(lookups) : ~Present(lookups[i])

\* C1 witness: the call ended on a hit that was not the first name tried,
\* while a later variant is present in the index too
HitBeforeLaterPresentVariant ==
    /\ pc = "done"
    /\ IsSome(hit)
    /\ Len(lookups) >= 2
    /\ result.kind = "Ok"
    /\ \E k \in PresentVariants : k \notin Range(lookups)

\* C2: a lookup that fails or finds nothing is neither surfaced nor retried:
\* no variant is looked up twice, the call fails with CrateNotFound only after
\* every variant was looked up and none was present, that error carries the
\* requested name, and a call on a non-empty name none of whose variants is
\* present ends exactly so.
MissesAreSkippedUntilExhausted ==
    /\ \A i, j \in 1..Len(lookups) : i # j => lookups[i] # lookups[j]
    /\ (result.kind = "Err" /\ result.err = "CrateNotFound") =>
         /\ result.name = crate_name
         /\ Len(lookups) = NumFuzzyNames(crate_name)
         /\ \A i \in 1..Len(lookups) : ~Present(lookups[i])
         /\ PresentVariants = {}
    /\ (pc = "done" /\ crate_name # <<>> /\ PresentVariants = {}) =>
         result = ErrResult("CrateNotFound", crate_name)
    /\ (pc = "done" /\ crate_name # <<>> /\ PresentVariants # {}) =>
         IsSome(hit)

\* C2 witness: a call failed with CrateNotFound after a lookup of one of
\* several variants had failed with an index error
NotFoundAfterIndexError ==
    /\ pc = "done"
    /\ result.kind = "Err"
    /\ result.err = "CrateNotFound"
    /\ Len(lookups) >= 2
    /\ \E i \in 1..Len(lookups) : Krate(index, lookups[i]).kind = "Err"
    /\ \E i \in 1..Len(lookups) : lookups[i] # crate_name

\* C4: for a non-empty requested name the literal name is among the
\* generated variants and is the first name looked up, so when it is present
\* in the index it is the one resolved, whatever other variants are present.
RequestedNameIsTriedFirst ==
    /\ (crate_name # <<>> /\ pc # "idle") =>
         \E m \in 1..NumFuzzyNames(crate_name) : GenFuzzyNameAt(crate_name, m) = crate_name
    /\ lookups # <<>> => lookups[1] = crate_name
    /\ (crate_name # <<>> /\ pc \in {"select", "done"}) => lookups # <<>>
    /\ (crate_name # <<>> /\ pc \in {"select", "done"} /\ Present(crate_name)) =>
         /\ hit = Some(crate_name)
         /\ lookups = <<crate_name>>
         /\ result.kind = "Ok" => \E i \in 1..Len(Krate(index, crate_name).versions) :
                                     Krate(index, crate_name).versions[i].name = result.name

\* C4 witness: a name with more than ten separators was resolved under its
\* literal spelling while another spelling is present too
LongNameResolvedLiterally ==
    /\ pc = "done"
    /\ Cardinality(SeparatorPositions) > WildcardCap
    /\ hit = Some(crate_name)
    /\ result.kind = "Ok"
    /\ \E k \in DOMAIN index : k # crate_name /\ index[k].kind = "Some"

\* C8: a call of either operation with the empty name fails at once with
\* EmptyCrateName: no variant is generated, the index receives no lookup, no
\* warning is emitted and no dependency is returned.
EmptyNameFailsAtOnce ==
    (crate_name = <<>> /\ pc # "idle") =>
        /\ pc = "done"
        /\ result = ErrResult("EmptyCrateName", <<>>)
        /\ names_len = 0
        /\ lookups = <<>>
        /\ hit = None
        /\ latest = None
        /\ warnings = <<>>

\* C8 witness: get_compatible_dependency was called with the empty name on
\* an index that holds a package under the empty name
EmptyNameRefusedDespitePackage ==
    /\ crate_name = <<>>
    /\ pc = "done"
    /\ args.mode = "compatible"
    /\ Present(<<>>)

\* C9: whenever the name of the resolved dependency differs from the
\* requested name, one warning naming both is emitted and the call still
\* succeeds; when the names are equal, and when the call fails, there is no
\* warning.
WarningIffNameSubstituted ==
    /\ pc # "done" => warnings = <<>>
    /\ (pc = "done" /\ result.kind = "Ok") =>
         warnings = IF result.name # crate_name
                    THEN <<[added |-> result.name, instead |-> crate_name]>>
                    ELSE <<>>
    /\ (pc = "done" /\ result.kind # "Ok") => warnings = <<>>
    /\ (pc = "done" /\ IsSome(latest)) =>
         /\ result.kind = "Ok"
         /\ result.name = crate_versions[Unwrap(latest)].name

\* C9 witness: a call resolved another spelling than the requested one and
\* ended with a dependency and a warning
SubstitutionWarned ==
    /\ pc = "done"
    /\ result.kind = "Ok"
    /\ IsSome(hit)
    /\ Unwrap(hit) # crate_name
    /\ result.name = Unwrap(hit)
    /\ warnings # <<>>

\* the raw record does not parse: its version is no semantic version, or its
\* rust-version is no single caret comparator without prerelease
Unparsable(v) ==
    \/ ~ParseVersion(v.version).ok
    \/ IsSome(v.rust_version) /\ ~RustVersionFromStr(Unwrap(v.rust_version)).ok

\* the error of a record that does not parse
ErrorOf(v) ==
    IF ~ParseVersion(v.version).ok THEN "InvalidVersion"
    ELSE RustVersionFromStr(Unwrap(v.rust_version)).err

\* C10: once a variant's lookup returned a present package, a record of that
\* package that does not parse fails the whole call with the parse error (of
\* the first such record), even when the record is yanked or would be
\* filtered out; no later variant is looked up and no dependency is returned.
UnparsableRecordFailsCall ==
    IsSome(hit) =>
        LET versions == Krate(index, Unwrap(hit)).versions
            bad == {i \in 1..Len(versions) : Unparsable(versions[i])}
        IN  bad # {} =>
              /\ pc = "done"
              /\ result = ErrResult(
                    ErrorOf(versions[CHOOSE i \in bad : \A j \in bad : i <= j]), <<>>)
              /\ lookups[Len(lookups)] = Unwrap(hit)
              /\ latest = None
              /\ warnings = <<>>

\* C10 witness: the call failed on a yanked record with an unparsable
\* version, although the package has a good record and a later variant holds
\* a package without fault
FailedOnYankedUnparsableRecord ==
    /\ pc = "done"
    /\ IsSome(hit)
    /\ result.kind = "Err"
    /\ result.err = "InvalidVersion"
    /\ \E i \in 1..Len(Krate(index, Unwrap(hit)).versions) :
         LET v == Krate(index, Unwrap(hit)).versions[i]
         IN  v.yanked /\ ~ParseVersion(v.version).ok
    /\ \E k \in PresentVariants :
         /\ k \notin Range(lookups)
         /\ CollectVersions(index[k].versions).ok

----------------------------------------------------------------------------
(* Properties of the selectors *)

\* lexicographic order of two tuples of numbers of the same length
LexLess(s, t) ==
    \E k \in 1..Len(s) : s[k] < t[k] /\ \A i \in 1..(k - 1) : s[i] = t[i]

Triple(v) == <<v.major, v.minor, v.patch>>

\* byte-wise order of two identifiers
TextLess(x, y) ==
    \/ Len(x) < Len(y) /\ SubSeq(y, 1, Len(x)) = x
    \/ \E k \in 1..Min(Len(x), Len(y)) :
         /\ CharCode(x[k]) < CharCode(y[k])
         /\ \A i \in 1..(k - 1) : x[i] = y[i]

\* precedence of two prerelease identifiers (semver.org, item 11.4): numeric
\* ones by value, a numeric one below an alphanumeric one, alphanumeric ones
\* in ASCII order
IdentifierBelow(x, y) ==
    IF AllDigits(x) /\ AllDigits(y) THEN DecimalValue(x) < DecimalValue(y)
    ELSE IF AllDigits(x) \/ AllDigits(y) THEN AllDigits(x)
    ELSE TextLess(x, y)

\* precedence of two versions (semver.org, item 11): the triples decide; on
\* equal triples a prerelease version is below the release, and two
\* prereleases are decided by their first differing identifier, a proper
\* prefix being below
PrecedenceBelow(a, b) ==
    \/ LexLess(Triple(a), Triple(b))
    \/ /\ Triple(a) = Triple(b)
       /\ a.pre # <<>>
       /\ \/ b.pre = <<>>
          \/ Len(a.pre) < Len(b.pre) /\ SubSeq(b.pre, 1, Len(a.pre)) = a.pre
          \/ \E k \in 1..Min(Len(a.pre), Len(b.pre)) :
               /\ IdentifierBelow(a.pre[k], b.pre[k])
               /\ \A i \in 1..(k - 1) : a.pre[i] = b.pre[i]

\* the record passes the ceiling: no ceiling, no declared minimum, or a
\* declared minimum that is not lexicographically above the ceiling
UnderCeiling(v) ==
    \/ args.rust_version = None
    \/ v.rust_version = None
    \/ ~LexLess(Triple(Unwrap(args.rust_version)), Triple(Unwrap(v.rust_version)))

\* the predicate of the mode of the call
ModePredicate(v) ==
    IF args.mode = "latest"
    THEN v.version.pre = <<>> \/ args.flag_allow_prerelease
    ELSE Matches(args.version_req, v.version)

\* the positions of the records a selection may return
SelectionCandidates ==
    {i \in 1..Len(crate_versions) :
        /\ ~crate_versions[i].yanked
        /\ UnderCeiling(crate_versions[i])
        /\ ModePredicate(crate_versions[i])}

\* the record the selection returned
Selected == crate_versions[Unwrap(latest)]

\* C5: in both modes the returned record is never a yanked one, even when a
\* yanked record is higher than every other one: in a list of pairwise
\* distinct versions no yanked record has the returned version; and when
\* every record is yanked the selection fails with NoAvailableVersion.
YankedNeverSelected ==
    pc = "done" =>
        /\ result.kind = "Ok" =>
             /\ IsSome(latest)
             /\ ~Selected.yanked
             /\ result.version = VersionToString(Selected.version)
             /\ (\A i, j \in 1..Len(crate_versions) :
                    i # j => crate_versions[i].version # crate_versions[j].version)
                  => \A i \in 1..Len(crate_versions) :
                        crate_versions[i].yanked =>
                            VersionToString(crate_versions[i].version) # result.version
        /\ (\A i \in 1..Len(crate_versions) : crate_versions[i].yanked) =>
             result = ErrResult("NoAvailableVersion", <<>>)

\* C5 witness: a version was returned while a yanked record is higher than
\* every record that is not yanked
YankedHighestPassedOver ==
    /\ pc = "done"
    /\ result.kind = "Ok"
    /\ \E i \in 1..Len(crate_versions) :
         /\ crate_versions[i].yanked
         /\ \A j \in 1..Len(crate_versions) :
              ~crate_versions[j].yanked =>
                  PrecedenceBelow(crate_versions[j].version, crate_versions[i].version)

\* C6: in either mode the returned version is the maximum by semver
\* precedence of the records that are not yanked, pass the ceiling and
\* satisfy the mode predicate, wherever they stand in the list; the
\* selection fails with NoAvailableVersion exactly when there is no such
\* record.  Latest mode without allow_prerelease never returns a prerelease,
\* and with it returns a prerelease that is the highest candidate.
MaximumCandidateSelected ==
    pc = "done" =>
        /\ (SelectionCandidates = {}) <=> (result = ErrResult("NoAvailableVersion", <<>>))
        /\ (SelectionCandidates = {}) <=> (result.kind # "Ok")
        /\ SelectionCandidates # {} =>
             /\ IsSome(latest)
             /\ Unwrap(latest) \in SelectionCandidates
             /\ \A j \in SelectionCandidates :
                  ~PrecedenceBelow(Selected.version, crate_versions[j].version)
             /\ result.name = Selected.name
             /\ ParseVersion(result.version).ok
             /\ ParseVersion(result.version).val = Selected.version
        /\ (args.mode = "latest" /\ ~args.flag_allow_prerelease /\ result.kind = "Ok") =>
             /\ Selected.version.pre = <<>>
             /\ "-" \notin Range(result.version)
        /\ (args.mode = "latest" /\ args.flag_allow_prerelease) =>
             \A i \in SelectionCandidates :
                 (/\ crate_versions[i].version.pre # <<>>
                  /\ \A j \in SelectionCandidates :
                       ~PrecedenceBelow(crate_versions[i].version, crate_versions[j].version))
                   => result.version = VersionToString(crate_versions[i].version)

\* C6 witness: latest mode with allow_prerelease returned a prerelease that
\* stands before a lower candidate in the list and has a lower prerelease of
\* the same triple beside it
PrereleaseMaximumSelected ==
    /\ pc = "done"
    /\ args.mode = "latest"
    /\ args.flag_allow_prerelease
    /\ result.kind = "Ok"
    /\ Selected.version.pre # <<>>
    /\ \E j \in SelectionCandidates :
         /\ j > Unwrap(latest)
         /\ Triple(crate_versions[j].version) = Triple(Selected.version)
         /\ PrecedenceBelow(crate_versions[j].version, Selected.version)

\* C7: with a ceiling the returned record declares no minimum toolchain or
\* one that is at most the ceiling in the lexicographic order of (major,
\* minor, patch); a record without a declared minimum is never left out
\* because of the ceiling, and without a ceiling no record is left out on
\* toolchain grounds: such a record, when it is not yanked and satisfies the
\* mode predicate, is returned or is not above the returned one.
CeilingBoundsDeclaredMinimum ==
    pc = "done" =>
        /\ (result.kind = "Ok" /\ IsSome(args.rust_version)) =>
             \/ Selected.rust_version = None
             \/ Triple(Unwrap(Selected.rust_version)) = Triple(Unwrap(args.rust_version))
             \/ LexLess(Triple(Unwrap(Selected.rust_version)),
                        Triple(Unwrap(args.rust_version)))
        /\ \A i \in 1..Len(crate_versions) :
             (/\ ~crate_versions[i].yanked
              /\ ModePredicate(crate_versions[i])
              /\ (args.rust_version = None \/ crate_versions[i].rust_version = None))
               => /\ result.kind = "Ok"
                  /\ ~PrecedenceBelow(Selected.version, crate_versions[i].version)

\* C7 witness: under the ceiling 1.70.0 a record that declares 1.56.2 was
\* returned, while a higher record that declares 1.70.1 was left out
HigherRecordAboveCeilingLeftOut ==
    /\ pc = "done"
    /\ IsSome(args.rust_version)
    /\ result.kind = "Ok"
    /\ IsSome(Selected.rust_version)
    /\ Unwrap(Selected.rust_version).patch > Unwrap(args.rust_version).patch
    /\ \E i \in 1..Len(crate_versions) :
         /\ ~crate_versions[i].yanked
         /\ ModePredicate(crate_versions[i])
         /\ PrecedenceBelow(Selected.version, crate_versions[i].version)
         /\ IsSome(crate_versions[i].rust_version)
         /\ LexLess(Triple(Unwrap(args.rust_version)),
                    Triple(Unwrap(crate_versions[i].rust_version)))

====
